---- MODULE Spec2Model ----
(***************************************************************************)
(* Model of sweeprecon/EstimateRespiration.py (class EstimateRespiration)  *)
(* and of the artifact paths of sweeprecon/utilities/WritePaths.py.        *)
(*                                                                         *)
(* A volume is a record [shape, img]: shape = <<n0, n1, n2>> as numpy's    *)
(* img.shape, img = the sequence of its n2 slices img[:, :, zz].  A slice  *)
(* is a symbolic term: <<"in", z>> is slice z of the input image, and       *)
(* <<f, t1, ..>> is what the per-slice function f returns for the slices   *)
(* t1, ..  (the numeric routines of scipy/skimage are not part of the      *)
(* repository; a term keeps exactly which function was applied to which    *)
(* slices, which is what the statements about ordering need).              *)
(***************************************************************************)
EXTENDS Integers, Sequences, FiniteSets, TLC

VARIABLES
    pc,                 \* position of the calling thread
    exc,                \* the exception that ended the call, "" when none
    stdout,             \* what print() wrote so far
    written,            \* the write_nii calls so far: [path, shape, img]
    _resp_method,        \* self._resp_method
    _disable_crop_data,  \* self._disable_crop_data
    _n_threads,          \* self._n_threads
    _image,              \* self._image
    _image_initialised,  \* self._image_initialised
    _image_refined,      \* self._image_refined
    filtered_image,     \* local of _initialise_boundaries / _refine_boundaries
    resp_raw,           \* self.resp_raw
    resp_trend,         \* self.resp_trend
    resp_trace,         \* self.resp_trace
    bad,                \* the <<function, input slice>> pairs on which the function raises
    p_fn,               \* _process_slices_parallel: function_name
    p_vols,             \* _process_slices_parallel: list(vols)
    p_procs,            \* number of processes of the Pool
    p_next,             \* next task of the pool's task queue (tasks are 1..NTasks)
    p_running,          \* tasks a worker process is executing
    p_value,            \* the results the AsyncResult holds, by task index
    p_order,            \* tasks in the order their results arrived
    p_ok,               \* FALSE once a task raised
    h_fn,               \* a direct call of _process_slices_parallel: function_name
    h_vols,             \* a direct call of _process_slices_parallel: vols
    h_runs,             \* direct calls finished so far
    h_out,              \* outcome of the last finished call
    h_prev,             \* outcome of the call before
    sz0,                \* _auto_crop: sz[0]
    respspectrum,       \* _auto_crop: respspectrum
    rect,               \* _auto_crop: rect
    vox,                \* _initialise_boundaries: filtered_image, voxel by voxel
    img_thresh,         \* _initialise_boundaries: img_thresh (set of true voxels)
    ac_mask             \* _initialise_boundaries: ac_mask (voxel -> 0/1)

pipeVars == <<exc, stdout, written, _resp_method, _disable_crop_data, _n_threads,
              _image, _image_initialised, _image_refined, filtered_image,
              resp_raw, resp_trend, resp_trace>>
poolVars == <<p_fn, p_vols, p_procs, p_next, p_running, p_value, p_order, p_ok>>
harnessVars == <<h_fn, h_vols, h_runs, h_out, h_prev>>
cropVars == <<sz0, respspectrum, rect>>
initVars == <<vox, img_thresh, ac_mask>>
vars == <<pc, pipeVars, bad, poolVars, harnessVars, cropVars, initVars>>

----------------------------------------------------------------------------
(* Bounds of the model.                                                     *)
MaxSlices == 3      \* slices per volume (shape[2])
MaxCores == 2       \* worker processes of a pool
MaxLines == 5       \* in-plane size of a pipeline volume (shape[0], shape[1])
MaxCropLines == 7   \* sz[0] of the volumes the crop detector is run on
MaxEnergy == 2      \* largest value of one entry of respspectrum

(* Constants of the program.                                                *)
GaussRadius == 5    \* gaussian_filter(sigma=1.2): int(4 * 1.2 + 0.5) samples each side

Max(a, b) == IF a >= b THEN a ELSE b
Min(a, b) == IF a <= b THEN a ELSE b

RECURSIVE SumTo(_, _, _)
SumTo(f, lo, hi) == IF lo > hi THEN 0 ELSE f[lo] + SumTo(f, lo + 1, hi)

----------------------------------------------------------------------------
(* _auto_crop, lines 101-110: the rectangle from the respiratory profile.   *)

\* int(sz[0] * (crop_fraction * 1.2)) with crop_fraction = 0.4
WindowLen(n) == (n * 48) \div 100

\* width = int(sz[0] * crop_fraction * 0.5) with crop_fraction = 0.4
CropWidth(n) == (n * 2) \div 10

\* np.convolve(x, np.ones(m), mode='same'): the middle len(x) entries of the
\* full convolution, which starts (m - 1) // 2 entries in.  x is 0-based.
ConvolveSame(x, n, m) ==
    LET s == (m - 1) \div 2
    IN  [k \in 0..(n - 1) |-> SumTo(x, Max(0, k + s - m + 1), Min(n - 1, k + s))]

\* np.argmax: the first index that holds the maximum
ArgMax(y, n) ==
    CHOOSE k \in 0..(n - 1) :
        /\ \A j \in 0..(n - 1) : y[j] <= y[k]
        /\ \A j \in 0..(k - 1) : y[j] < y[k]

Centerline(x, n) == ArgMax(ConvolveSame(x, n, WindowLen(n)), n)

\* rect = np.array([[centerline - width, 0], [centerline + width, sz[0]]])
CropRect(x, n) ==
    <<  <<Centerline(x, n) - CropWidth(n), 0>>,
        <<Centerline(x, n) + CropWidth(n), n>>  >>

\* respspectrum sums rows of the Gaussian-blurred, non-negative freqmat: a row is
\* zero exactly when every row within the kernel's radius was zero before the
\* blur, so the non-zero rows are a union of windows of that radius.
Spread(S, n) == {k \in 0..(n - 1) : \E s \in S : k - s <= GaussRadius /\ s - k <= GaussRadius}
Core(P, n) == {s \in 0..(n - 1) : Spread({s}, n) \subseteq P}
RespSpectra(n) ==
    {x \in [0..(n - 1) -> 0..MaxEnergy] :
        LET P == {k \in 0..(n - 1) : x[k] > 0} IN P = Spread(Core(P, n), n)}

NoRect == << <<0, 0>>, <<0, 0>> >>

\* the line counts whose half-width int(sz[0] * 0.2) is not 0
CropLineCounts == {n \in 1..MaxCropLines : CropWidth(n) > 0}

----------------------------------------------------------------------------
(* The per-slice functions handed to _process_slices_parallel.              *)

FnNames == {"_filter_median", "_filter_denoise", "_filter_inv_gauss", "_segment_gac"}

\* number of volumes each is called with (lines 124, 149, 153, 162)
Arity(fn) == IF fn = "_segment_gac" THEN 2 ELSE 1

\* the input slice a term was computed from
RECURSIVE Base(_)
Base(t) == IF t[1] \in {"in", "aux"} THEN t[2] ELSE Base(t[2])

\* function_name(*args): the slice it returns
Apply(fn, args) == <<fn>> \o args

\* function_name(*args) raises
Raises(fn, args) == <<fn, Base(args[1])>> \in bad

InputImg(n) == [z \in 1..n |-> <<"in", z>>]
AuxImg(n) == [z \in 1..n |-> <<"aux", z>>]

Volume(shape, img) == [shape |-> shape, img |-> img]
NoVolume == Volume(<<0, 0, 0>>, <<>>)

----------------------------------------------------------------------------
(* ImageData (not part of the sources): numpy slicing, set_data, write_nii. *)

\* len(range(n)[a:b]) for a slice a:b of an axis of length n
SliceLen(n, a, b) ==
    LET lo == IF a < 0 THEN Max(0, a + n) ELSE Min(a, n)
        hi == IF b < 0 THEN Max(0, b + n) ELSE Min(b, n)
    IN  Max(0, hi - lo)

\* square_crop(rect): img = img[rect[0,1]:rect[1,1], rect[0,0]:rect[1,0], :]
square_crop(v, r) ==
    Volume(<< SliceLen(v.shape[1], r[1][2], r[2][2]),
              SliceLen(v.shape[2], r[1][1], r[2][1]),
              v.shape[3] >>, v.img)

\* set_data(a): img = a
set_data(v, a) == a

\* write_nii(path) of volume v, appended to the calls made so far
write_nii(log, v, path) == Append(log, [path |-> path, shape |-> v.shape, img |-> v.img])

----------------------------------------------------------------------------
(* WritePaths: os.path.join(os.getcwd(), 'IMG_3D_' + name + '.nii.gz')      *)

nii_ext == ".nii.gz"
path_cropped == "IMG_3D_" \o "cropped" \o nii_ext
\* path_initialised_contours, had it been given the name of the refined contours
path_initialised_as_refined == "IMG_3D_" \o "contours_refined" \o nii_ext
path_initialised_contours == "IMG_3D_" \o "contours_initialised" \o nii_ext
path_refined_contours == "IMG_3D_" \o "contours_refined" \o nii_ext
path_filtered_contours == "IMG_3D_" \o "contours_filtered" \o nii_ext

----------------------------------------------------------------------------
(* _process_slices_parallel, lines 268-298.                                 *)

NTasks == IF Len(p_vols) = 0 THEN 0 ELSE Len(p_vols[1].img)

\* [vols[v][:, :, zz] for v in range(0, vols.__len__())]
TaskArgs(zz) == [v \in 1..Len(p_vols) |-> p_vols[v].img[zz]]

NoSlice == <<"none">>

\* lines 279-292: the pool is created and one task per slice is submitted
Submit(fn, vols, cores) ==
    /\ \E cpu \in 1..(MaxCores + 1) :
          p_procs' = IF cores = 0 THEN Max(1, cpu - 1) ELSE cores
    /\ p_fn' = fn
    /\ p_vols' = vols
    /\ p_next' = 1
    /\ p_running' = {}
    /\ p_value' = [z \in 1..Len(vols[1].img) |-> NoSlice]
    /\ p_order' = <<>>
    /\ p_ok' = TRUE

\* a free worker process takes the next task of the queue (the pool hands the
\* tasks out in chunks of ceil(n / (4 * processes)) slices: one slice for the
\* volumes of up to 4 slices per process that the bounds allow)
WorkerTake ==
    /\ p_next <= NTasks
    /\ Cardinality(p_running) < p_procs
    /\ p_running' = p_running \cup {p_next}
    /\ p_next' = p_next + 1
    /\ UNCHANGED <<p_fn, p_vols, p_procs, p_value, p_order, p_ok>>

\* WorkerFinish, were a result kept at the place of its arrival (imap_unordered)
WorkerFinishByArrival ==
    \E zz \in p_running :
        /\ p_running' = p_running \ {zz}
        /\ p_order' = Append(p_order, zz)
        /\ IF Raises(p_fn, TaskArgs(zz))
           THEN p_ok' = FALSE /\ UNCHANGED p_value
           ELSE p_value' = [p_value EXCEPT ![Len(p_order) + 1] = Apply(p_fn, TaskArgs(zz))]
                /\ UNCHANGED p_ok
        /\ UNCHANGED <<p_fn, p_vols, p_procs, p_next>>

\* a worker finishes its task: the result, or the exception, reaches the AsyncResult
WorkerFinish ==
    \E zz \in p_running :
        /\ p_running' = p_running \ {zz}
        /\ p_order' = Append(p_order, zz)
        /\ IF Raises(p_fn, TaskArgs(zz))
           THEN p_ok' = FALSE /\ UNCHANGED p_value
           ELSE p_value' = [p_value EXCEPT ![zz] = Apply(p_fn, TaskArgs(zz))] /\ UNCHANGED p_ok
        /\ UNCHANGED <<p_fn, p_vols, p_procs, p_next>>

AllArrived == Len(p_order) = NTasks

\* GetReturns, were the results of the tasks that ended well returned whatever the others did
GetReturnsDespiteErrors == AllArrived

\* GetReturns, were the call not to wait for the tasks the workers still execute
GetReturnsOnceTaken == p_ok /\ p_next > NTasks

\* .get() returns the list of results
GetReturns == AllArrived /\ p_ok

\* .get() re-raises a task's exception (at once or when all tasks have ended,
\* depending on the version of multiprocessing)
GetRaises == ~p_ok

\* sub_arrays, were the results listed in the order of their arrival
sub_arrays_by_arrival == [i \in 1..NTasks |-> p_value[p_order[i]]]

\* starmap_async(...).get(): the results in the order of the tasks
sub_arrays == [i \in 1..NTasks |-> p_value[i]]

\* np.stack(sub_arrays, axis=2)
Stacked == Volume(<<p_vols[1].shape[1], p_vols[1].shape[2], NTasks>>, sub_arrays)

\* the message line 295 prints
DurationMsg(fn) == fn \o " duration"

PoolIdle ==
    /\ p_fn = "" /\ p_vols = <<>> /\ p_procs = 0 /\ p_next = 1 /\ p_running = {}
    /\ p_value = <<>> /\ p_order = <<>> /\ p_ok = TRUE

----------------------------------------------------------------------------
(* EstimateRespiration: __init__, run, _method_body_area and its stages.    *)

Shapes ==
    {<<n0, n1, n2>> : n0 \in (MaxLines - 1)..MaxLines,
                      n1 \in (MaxLines - 1)..MaxLines \cup {2 * MaxLines - 1},
                      n2 \in 1..MaxSlices}

\* the values one entry of a signal takes
SignalVals == 0..1

NoneSig == [kind |-> "None", val |-> <<>>]

WaitStates == {"init_wait_median", "refine_wait_denoise", "refine_wait_inv_gauss",
               "refine_wait_gac"}

NoOutcome == [ok |-> FALSE, procs |-> 0, vol |-> NoVolume]

NoDirectCall == h_fn = "" /\ h_vols = <<>> /\ h_runs = 0 /\ h_out = NoOutcome /\ h_prev = NoOutcome
NoCropRun == sz0 = 0 /\ respspectrum = <<>> /\ rect = NoRect
NoVoxelRun == vox = <<>> /\ img_thresh = {} /\ ac_mask = <<>>
NoPipeline ==
    /\ exc = "" /\ stdout = <<>> /\ written = <<>>
    /\ _resp_method = "body_area" /\ _disable_crop_data = FALSE /\ _n_threads = 0
    /\ _image = NoVolume /\ _image_initialised = NoVolume /\ _image_refined = NoVolume
    /\ filtered_image = NoVolume
    /\ resp_raw = NoneSig /\ resp_trend = NoneSig /\ resp_trace = NoneSig

\* lines 38-53: the state after __init__(img, write_paths, method, _disable_crop_data,
\* plot_figures, _n_threads)
Init ==
    /\ pc = "new" /\ exc = "" /\ stdout = <<>> /\ written = <<>>
    /\ _resp_method \in {"body_area", "other"}
    /\ _disable_crop_data \in BOOLEAN
    /\ _n_threads \in 0..MaxCores
    /\ \E sh \in Shapes :
          /\ _image = Volume(sh, InputImg(sh[3]))
          /\ _image_initialised = _image
          /\ _image_refined = _image
    /\ filtered_image = NoVolume
    /\ resp_raw = NoneSig /\ resp_trend = NoneSig /\ resp_trace = NoneSig
    /\ bad \in {{}} \cup {{<<f, z>>} : f \in FnNames, z \in 1.._image.shape[3]}
    /\ PoolIdle
    /\ NoDirectCall
    /\ NoCropRun
    /\ NoVoxelRun

Fail(e) == pc' = "raised" /\ exc' = e

\* lines 64-69 of _method_body_area, entered from run()
_method_body_area ==
    IF ~_disable_crop_data
    THEN /\ stdout' = Append(stdout, "Cropping respiration area...")
         /\ pc' = "auto_crop"
    ELSE /\ stdout' = Append(stdout, "Initialising boundaries...")
         /\ pc' = "initialise_boundaries"

\* run, were the method not looked at
run_any_method ==
    /\ pc = "new"
    /\ _method_body_area /\ UNCHANGED exc
    /\ UNCHANGED <<written, _resp_method, _disable_crop_data, _n_threads, _image,
                   _image_initialised, _image_refined, filtered_image, resp_raw,
                   resp_trend, resp_trace, bad, poolVars, harnessVars, cropVars, initVars>>

\* lines 55-60: run()
run ==
    /\ pc = "new"
    /\ IF _resp_method = "body_area"
       THEN _method_body_area /\ UNCHANGED exc
       ELSE Fail("Invalid respiration estimate method") /\ UNCHANGED stdout
    /\ UNCHANGED <<written, _resp_method, _disable_crop_data, _n_threads, _image,
                   _image_initialised, _image_refined, filtered_image, resp_raw,
                   resp_trend, resp_trace, bad, poolVars, harnessVars, cropVars, initVars>>

\* lines 87-110: the rectangles _auto_crop can make of a volume of n lines
CropRects ==
    [n \in (MaxLines - 1)..MaxLines |-> {CropRect(x, n) : x \in RespSpectra(n)}]

\* CropAll, were the copy of the initialised contours left out
CropAllButInitialised(r) ==
    /\ _image' = square_crop(_image, r)
    /\ _image_initialised' = _image_initialised
    /\ _image_refined' = square_crop(_image_refined, r)

\* lines 112-115: crop all image copies
CropAll(r) ==
    /\ _image' = square_crop(_image, r)
    /\ _image_initialised' = square_crop(_image_initialised, r)
    /\ _image_refined' = square_crop(_image_refined, r)

\* lines 78-118: _auto_crop, then line 68.  The loop of line 91 reads
\* img[:, ln, :] for ln < sz[0], an IndexError when sz[0] > sz[1]; np.convolve
\* raises a ValueError when the window is empty.
_auto_crop ==
    /\ pc = "auto_crop"
    /\ IF _image.shape[1] > _image.shape[2]
       THEN /\ Fail("IndexError")
            /\ UNCHANGED <<stdout, written, _image, _image_initialised, _image_refined>>
       ELSE IF WindowLen(_image.shape[1]) = 0
       THEN /\ Fail("ValueError")
            /\ UNCHANGED <<stdout, written, _image, _image_initialised, _image_refined>>
       ELSE \E r \in CropRects[_image.shape[1]] :
            /\ CropAll(r)
            /\ written' = write_nii(written, _image', path_cropped)
            /\ stdout' = Append(stdout, "Initialising boundaries...")
            /\ pc' = "initialise_boundaries"
            /\ UNCHANGED exc
    /\ UNCHANGED <<_resp_method, _disable_crop_data, _n_threads, filtered_image, resp_raw,
                   resp_trend, resp_trace, bad, poolVars, harnessVars, cropVars, initVars>>

\* lines 124-127: the median filter is submitted
_initialise_boundaries ==
    /\ pc = "initialise_boundaries"
    /\ Submit("_filter_median", <<_image>>, _n_threads)
    /\ pc' = "init_wait_median"
    /\ UNCHANGED <<pipeVars, bad, harnessVars, cropVars, initVars>>

\* lines 138-139, slice by slice: the components of the thresholded volume
\* that hold the two corner voxels
AcMask(v) == Volume(v.shape, [z \in 1..Len(v.img) |-> <<"ac_mask", v.img[z]>>])

\* lines 295-298 and 130-143, then line 71.  labels[0, 0, 0] is an IndexError
\* when the volume has no voxel.
_initialise_boundaries_filtered ==
    /\ pc = "init_wait_median"
    /\ GetReturns
    /\ IF Stacked.shape[1] = 0 \/ Stacked.shape[2] = 0
       THEN /\ Fail("IndexError")
            /\ stdout' = Append(stdout, DurationMsg(p_fn))
            /\ UNCHANGED <<written, _image_initialised>>
       ELSE /\ _image_initialised' = set_data(_image_initialised, AcMask(Stacked))
            /\ written' = write_nii(written, _image_initialised', path_initialised_contours)
            /\ stdout' = stdout \o <<DurationMsg(p_fn), "Refining boundaries...">>
            /\ pc' = "refine_boundaries"
            /\ UNCHANGED exc
    /\ UNCHANGED <<_resp_method, _disable_crop_data, _n_threads, _image, _image_refined,
                   filtered_image, resp_raw, resp_trend, resp_trace, bad, poolVars,
                   harnessVars, cropVars, initVars>>

\* lines 149-151: the denoising is submitted
_refine_boundaries ==
    /\ pc = "refine_boundaries"
    /\ Submit("_filter_denoise", <<_image>>, _n_threads)
    /\ pc' = "refine_wait_denoise"
    /\ UNCHANGED <<pipeVars, bad, harnessVars, cropVars, initVars>>

\* lines 295-298 of the first call, then lines 153-155
_refine_boundaries_denoised ==
    /\ pc = "refine_wait_denoise"
    /\ GetReturns
    /\ stdout' = Append(stdout, DurationMsg(p_fn))
    /\ Submit("_filter_inv_gauss", <<Stacked>>, _n_threads)
    /\ pc' = "refine_wait_inv_gauss"
    /\ UNCHANGED <<exc, written, _resp_method, _disable_crop_data, _n_threads, _image,
                   _image_initialised, _image_refined, filtered_image, resp_raw,
                   resp_trend, resp_trace, bad, harnessVars, cropVars, initVars>>

\* lines 295-298 of the second call, then lines 158-165
_refine_boundaries_filtered ==
    /\ pc = "refine_wait_inv_gauss"
    /\ GetReturns
    /\ stdout' = Append(stdout, DurationMsg(p_fn))
    /\ filtered_image' = Stacked
    /\ _image_refined' = set_data(_image_refined, filtered_image')
    /\ written' = write_nii(written, _image_refined', path_filtered_contours)
    /\ Submit("_segment_gac", <<filtered_image', _image_initialised>>, _n_threads)
    /\ pc' = "refine_wait_gac"
    /\ UNCHANGED <<exc, _resp_method, _disable_crop_data, _n_threads, _image,
                   _image_initialised, resp_raw, resp_trend, resp_trace, bad,
                   harnessVars, cropVars, initVars>>

\* line 172: refined_contours = (refined_contours == 0) * 1
Inverted(v) == Volume(v.shape, [z \in 1..Len(v.img) |-> <<"invert", v.img[z]>>])

\* cropval = int(self._crop_fraction * refined_contours.shape[1]), _crop_fraction = 0.12
CropVal(n1) == (n1 * 12) \div 100

\* line 178: rect of the edge crop of the refined contours
EdgeRect(shape) ==
    << <<0 + CropVal(shape[2]), 0>>, <<shape[2] - 1 - CropVal(shape[2]), shape[1]>> >>

\* lines 295-298 of the third call, then lines 168-182 and line 74
_refine_boundaries_segmented ==
    /\ pc = "refine_wait_gac"
    /\ GetReturns
    /\ LET refined_contours == Inverted(Stacked)
           again == write_nii(written, set_data(_image_refined, filtered_image),
                              path_filtered_contours)
       IN  /\ _image_refined' = square_crop(set_data(_image_refined, refined_contours),
                                           EdgeRect(refined_contours.shape))
           /\ written' = write_nii(again, _image_refined', path_refined_contours)
    /\ stdout' = stdout \o <<DurationMsg(p_fn), "Extracting respiration...">>
    /\ pc' = "sum_mask_data"
    /\ UNCHANGED <<exc, _resp_method, _disable_crop_data, _n_threads, _image,
                   _image_initialised, filtered_image, resp_raw, resp_trend, resp_trace,
                   bad, poolVars, harnessVars, cropVars, initVars>>

\* np.squeeze of a 1-D array: an array of length 1 becomes a scalar
Squeeze(a) == IF Len(a) = 1 THEN [kind |-> "scalar", val |-> a]
                            ELSE [kind |-> "array", val |-> a]

\* lines 184-186: _sum_mask_data; the sums are those of a 0/1 mask the model
\* does not hold voxel by voxel
_sum_mask_data ==
    /\ pc = "sum_mask_data"
    /\ \E a \in [1.._image_refined.shape[3] -> SignalVals] :
          /\ \A z \in DOMAIN a : a[z] <= _image_refined.shape[1] * _image_refined.shape[2]
          /\ resp_raw' = Squeeze(a)
    /\ pc' = "gpr_filter"
    /\ UNCHANGED <<exc, stdout, written, _resp_method, _disable_crop_data, _n_threads,
                   _image, _image_initialised, _image_refined, filtered_image, resp_trend,
                   resp_trace, bad, poolVars, harnessVars, cropVars, initVars>>

\* Residual, were the operands exchanged
ResidualSwapped(raw, trend) == [i \in DOMAIN raw |-> trend[i] - raw[i]]

\* line 202: self.resp_raw - self.resp_trend
Residual(raw, trend) == [i \in DOMAIN raw |-> raw[i] - trend[i]]

\* lines 188-202: _gpr_filter.  resp_raw.shape[0] is an IndexError on a scalar;
\* the regression's prediction is a value per index the model does not compute.
_gpr_filter ==
    /\ pc = "gpr_filter"
    /\ IF resp_raw.kind = "scalar"
       THEN Fail("IndexError") /\ UNCHANGED <<resp_trend, resp_trace>>
       ELSE \E t \in [DOMAIN resp_raw.val -> SignalVals] :
            /\ resp_trend' = [kind |-> "array", val |-> t]
            /\ resp_trace' = [kind |-> "array",
                              val |-> Residual(resp_raw.val, resp_trend'.val)]
            /\ pc' = "done"
            /\ UNCHANGED exc
    /\ UNCHANGED <<stdout, written, _resp_method, _disable_crop_data, _n_threads,
                   _image, _image_initialised, _image_refined, filtered_image, resp_raw,
                   bad, poolVars, harnessVars, cropVars, initVars>>

\* line 292: .get() re-raises what a task raised; nothing of lines 294-298 runs
GetRaised ==
    /\ pc \in WaitStates
    /\ GetRaises
    /\ Fail("worker")
    /\ UNCHANGED <<stdout, written, _resp_method, _disable_crop_data, _n_threads,
                   _image, _image_initialised, _image_refined, filtered_image, resp_raw,
                   resp_trend, resp_trace, bad, poolVars, harnessVars, cropVars, initVars>>

Take == WorkerTake /\ UNCHANGED <<pc, pipeVars, bad, harnessVars, cropVars, initVars>>
Finish == WorkerFinish /\ UNCHANGED <<pc, pipeVars, bad, harnessVars, cropVars, initVars>>

Next ==
    \/ run
    \/ _auto_crop
    \/ _initialise_boundaries
    \/ _initialise_boundaries_filtered
    \/ _refine_boundaries
    \/ _refine_boundaries_denoised
    \/ _refine_boundaries_filtered
    \/ _refine_boundaries_segmented
    \/ _sum_mask_data
    \/ _gpr_filter
    \/ GetRaised
    \/ Take
    \/ Finish

Spec == Init /\ [][Next]_vars

----------------------------------------------------------------------------
(* _process_slices_parallel called directly, twice at most in a row on the  *)
(* same function and volumes, each time with its own cores argument.        *)

MaxCalls == 2

InitPool ==
    /\ pc = "h_idle"
    /\ NoPipeline
    /\ h_fn \in FnNames
    /\ \E n \in 1..MaxSlices :
          /\ h_vols = IF Arity(h_fn) = 1
                      THEN <<Volume(<<MaxLines, MaxLines, n>>, InputImg(n))>>
                      ELSE <<Volume(<<MaxLines, MaxLines, n>>, InputImg(n)),
                             Volume(<<MaxLines, MaxLines, n>>, AuxImg(n))>>
          /\ bad \in SUBSET ({h_fn} \X (1..n))
    /\ h_runs = 0 /\ h_out = NoOutcome /\ h_prev = NoOutcome
    /\ PoolIdle
    /\ NoCropRun
    /\ NoVoxelRun

\* the call: lines 279-292
DirectCall ==
    /\ pc = "h_idle"
    /\ h_runs < MaxCalls
    /\ \E cores \in 0..MaxCores : Submit(h_fn, h_vols, cores)
    /\ h_prev' = h_out
    /\ pc' = "h_wait"
    /\ UNCHANGED <<pipeVars, bad, h_fn, h_vols, h_runs, h_out, cropVars, initVars>>

\* lines 294-298: the call returns the recombined array
DirectReturn ==
    /\ pc = "h_wait"
    /\ GetReturns
    /\ stdout' = Append(stdout, DurationMsg(p_fn))
    /\ h_out' = [ok |-> TRUE, procs |-> p_procs, vol |-> Stacked]
    /\ h_runs' = h_runs + 1
    /\ pc' = "h_idle"
    /\ UNCHANGED <<exc, written, _resp_method, _disable_crop_data, _n_threads, _image,
                   _image_initialised, _image_refined, filtered_image, resp_raw,
                   resp_trend, resp_trace, bad, poolVars, h_fn, h_vols, h_prev,
                   cropVars, initVars>>

\* line 292: the call raises what a task raised
DirectRaise ==
    /\ pc = "h_wait"
    /\ GetRaises
    /\ exc' = "worker"
    /\ h_out' = [ok |-> FALSE, procs |-> p_procs, vol |-> NoVolume]
    /\ h_runs' = h_runs + 1
    /\ pc' = "h_idle"
    /\ UNCHANGED <<stdout, written, _resp_method, _disable_crop_data, _n_threads, _image,
                   _image_initialised, _image_refined, filtered_image, resp_raw,
                   resp_trend, resp_trace, bad, poolVars, h_fn, h_vols, h_prev,
                   cropVars, initVars>>

NextPool ==
    \/ DirectCall
    \/ DirectReturn
    \/ DirectRaise
    \/ Take
    \/ Finish

SpecPool == InitPool /\ [][NextPool]_vars

----------------------------------------------------------------------------
(* _auto_crop's rectangle, lines 101-110, on every respiratory profile.     *)

InitCrop ==
    /\ pc = "crop_new"
    /\ NoPipeline
    /\ bad = {}
    /\ PoolIdle
    /\ NoDirectCall
    /\ sz0 \in CropLineCounts
    /\ respspectrum \in RespSpectra(sz0)
    /\ rect = NoRect
    /\ NoVoxelRun

CropDetect ==
    /\ pc = "crop_new"
    /\ IF WindowLen(sz0) = 0
       THEN Fail("ValueError") /\ UNCHANGED rect
       ELSE /\ rect' = CropRect(respspectrum, sz0)
            /\ pc' = "crop_done"
            /\ UNCHANGED exc
    /\ UNCHANGED <<stdout, written, _resp_method, _disable_crop_data, _n_threads, _image,
                   _image_initialised, _image_refined, filtered_image, resp_raw,
                   resp_trend, resp_trace, bad, poolVars, harnessVars, sz0,
                   respspectrum, initVars>>

NextCrop == CropDetect

SpecCrop == InitCrop /\ [][NextCrop]_vars

----------------------------------------------------------------------------
(* _initialise_boundaries, lines 130-139, voxel by voxel.  vox is the       *)
(* median-filtered volume: [shape, val], val a function of the voxels.      *)

MaxVoxLines == 3        \* shape[0] of the volumes thresholded voxel by voxel
VoxPlanes == {<<1, 1>>, <<2, 1>>, <<1, 2>>}     \* their <<shape[1], shape[2]>>
Intensities == 0..2     \* the values of their voxels

Voxels(shape) == (0..(shape[1] - 1)) \X (0..(shape[2] - 1)) \X (0..(shape[3] - 1))

\* the voxels of filtered_image[[0, shape[0] - 1], :, :]
EdgeRows(shape) == {v \in Voxels(shape) : v[1] \in {0, shape[1] - 1}}

RECURSIVE SumOver(_, _, _)
SumOver(f, S, p) ==
    IF S = {} THEN 0
    ELSE LET v == CHOOSE u \in S : TRUE
         IN  (IF p = 1 THEN f[v] ELSE f[v] * f[v]) + SumOver(f, S \ {v}, p)

\* x <= np.mean(E) + 0.5 * np.std(E), over the integers: with n the number, s the
\* sum and q the sum of squares of the values of E,
\* n * x - s <= 0.5 * sqrt(n * q - s * s)
BelowThresh(x, n, s, q) ==
    LET d == n * x - s
    IN  d <= 0 \/ 4 * d * d <= n * q - s * s

\* lines 130-133: the voxels of filtered_image <= thresh
Thresholded(v) ==
    LET E == EdgeRows(v.shape)
        n == Cardinality(E)
        s == SumOver(v.val, E, 1)
        q == SumOver(v.val, E, 2)
    IN  {u \in Voxels(v.shape) : BelowThresh(v.val[u], n, s, q)}

\* ImgThresh, were the first and last rows not forced into the set
ImgThreshUnforced(v) == Thresholded(v)

\* lines 133-134: img_thresh, as the set of its true voxels
ImgThresh(v) == Thresholded(v) \cup EdgeRows(v.shape)

\* connectivity=1: two voxels that share a face
Adjacent(u, w) ==
    LET d(i) == IF u[i] >= w[i] THEN u[i] - w[i] ELSE w[i] - u[i]
    IN  d(1) + d(2) + d(3) = 1

RECURSIVE Grow(_, _)
Grow(T, S) ==
    LET N == S \cup {u \in T : \E w \in S : Adjacent(u, w)}
    IN  IF N = S THEN S ELSE Grow(T, N)

Raster(shape, u) == (u[1] * shape[2] + u[2]) * shape[3] + u[3]

\* measure.label(img_thresh, background=0, connectivity=1): 0 off the set, and one
\* positive number per connected component (here 1 + the raster index of the
\* component's first voxel; skimage numbers the components 1, 2, .. in that order)
Labels(shape, T) ==
    [u \in Voxels(shape) |->
        IF u \notin T THEN 0
        ELSE LET C == Grow(T, {u})
                 first == CHOOSE w \in C : \A x \in C : Raster(shape, w) <= Raster(shape, x)
             IN  1 + Raster(shape, first)]

\* lines 138-139
AcMaskVoxels(shape, T) ==
    LET labels == Labels(shape, T)
        a == labels[<<0, 0, 0>>]
        b == labels[<<shape[1] - 1, 0, 0>>]
    IN  [u \in Voxels(shape) |-> IF labels[u] = a \/ labels[u] = b THEN 1 ELSE 0]

InitVoxels ==
    /\ pc = "vox_new"
    /\ NoPipeline
    /\ bad = {}
    /\ PoolIdle
    /\ NoDirectCall
    /\ NoCropRun
    /\ \E n0 \in 1..MaxVoxLines, pl \in VoxPlanes :
          \E val \in [Voxels(<<n0, pl[1], pl[2]>>) -> Intensities] :
              vox = [shape |-> <<n0, pl[1], pl[2]>>, val |-> val]
    /\ img_thresh = {} /\ ac_mask = <<>>

ThresholdAndLabel ==
    /\ pc = "vox_new"
    /\ img_thresh' = ImgThresh(vox)
    /\ ac_mask' = AcMaskVoxels(vox.shape, img_thresh')
    /\ pc' = "vox_done"
    /\ UNCHANGED <<pipeVars, bad, poolVars, harnessVars, cropVars, vox>>

NextVoxels == ThresholdAndLabel

SpecVoxels == InitVoxels /\ [][NextVoxels]_vars

----------------------------------------------------------------------------
(* The properties.                                                          *)

IsPrefix(a, b) == Len(a) <= Len(b) /\ \A i \in 1..Len(a) : a[i] = b[i]

Printed(msg) == \E i \in 1..Len(stdout) : stdout[i] = msg

\* the arguments of the direct call's task for slice i
DirectArgs(i) == [v \in 1..Len(h_vols) |-> h_vols[v].img[i]]

\* C1: a call of _process_slices_parallel that returns, returns a volume with the
\* slice count (and in-plane shape) of the input whose slice i is function_name
\* applied to the slices i of the inputs, whatever the order in which the tasks
\* ended; and a call returns unless function_name raised on one of the slices.
C1_SlicesInInputOrder ==
    (pc = "h_idle" /\ h_runs > 0) =>
        IF h_out.ok
        THEN /\ h_out.vol.shape = h_vols[1].shape
             /\ Len(h_out.vol.img) = Len(h_vols[1].img)
             /\ \A i \in 1..Len(h_vols[1].img) : h_out.vol.img[i] = Apply(h_fn, DirectArgs(i))
        ELSE \E i \in 1..Len(h_vols[1].img) : Raises(h_fn, DirectArgs(i))

\* a call on two volumes has returned although its tasks ended out of order
C1_Witness ==
    /\ pc = "h_idle" /\ h_out.ok /\ Len(h_vols) = 2
    /\ Len(p_order) >= 2 /\ p_order[1] # 1

\* C2: once a task of a call has raised, the calling thread stores nothing any
\* more: no volume, no file and no signal changes, and the call either is still
\* waiting or has raised.
C2_NothingStoredAfterTaskRaised ==
    [][ (~p_ok) =>
          /\ UNCHANGED <<written, _image, _image_initialised, _image_refined,
                         filtered_image, resp_raw, resp_trend, resp_trace>>
          /\ pc' \in {pc, "raised"} ]_vars

\* a stage was aborted by a task that raised, after another task of the same
\* call had returned its slice and after earlier stages had stored theirs
C2_Witness ==
    /\ pc = "raised" /\ exc = "worker"
    /\ \E z \in 1..NTasks : p_value[z] # NoSlice
    /\ written # <<>>

\* C3: two calls in a row on the same function and volumes end alike, with the
\* same volume when they return, whatever the number of worker processes of each.
C3_SameForEveryWorkerCount ==
    (pc = "h_idle" /\ h_runs >= 2) =>
        /\ h_out.ok = h_prev.ok
        /\ h_out.vol = h_prev.vol

\* a call with one worker process was followed by one with several, whose
\* tasks ended out of order
C3_Witness ==
    /\ pc = "h_idle" /\ h_runs >= 2 /\ h_out.ok
    /\ h_prev.procs = 1 /\ h_out.procs > 1
    /\ p_order[1] # 1

\* C4: with a method other than 'body_area', run() raises the configuration
\* error and nothing else happens: nothing is printed, cropped, submitted to a
\* pool, replaced or written, and the three signals stay None.
C4_InvalidMethodDoesNothing ==
    (_resp_method # "body_area") =>
        /\ pc \in {"new", "raised"}
        /\ pc = "raised" => exc = "Invalid respiration estimate method"
        /\ stdout = <<>> /\ written = <<>>
        /\ PoolIdle
        /\ _image.img = InputImg(_image.shape[3])
        /\ _image_initialised = _image /\ _image_refined = _image
        /\ filtered_image = NoVolume
        /\ resp_raw = NoneSig /\ resp_trend = NoneSig /\ resp_trace = NoneSig

C4_Witness == pc = "raised" /\ _resp_method = "other"

\* what a complete run prints, in order
ExpectedStdout ==
    (IF _disable_crop_data THEN <<>> ELSE <<"Cropping respiration area...">>)
    \o <<"Initialising boundaries...", DurationMsg("_filter_median"),
         "Refining boundaries...", DurationMsg("_filter_denoise"),
         DurationMsg("_filter_inv_gauss"), DurationMsg("_segment_gac"),
         "Extracting respiration...">>

\* C5: the stages run in the order crop (unless disabled), initialisation,
\* refinement, trace extraction, trend filter; and whenever the calling thread
\* is not waiting in _process_slices_parallel (and was not thrown out of it by a
\* task's exception) no task is queued or running.
C5_StagesInOrderAndBarrier ==
    /\ IsPrefix(stdout, ExpectedStdout)
    /\ (resp_raw # NoneSig) => stdout = ExpectedStdout
    /\ (resp_trend # NoneSig \/ resp_trace # NoneSig) => resp_raw # NoneSig
    /\ (pc \notin WaitStates /\ exc # "worker") =>
            /\ p_running = {}
            /\ p_next > NTasks
            /\ Len(p_order) = NTasks

\* a complete run with the crop, whose last pool had several workers and tasks
C5_Witness ==
    /\ pc = "done" /\ ~_disable_crop_data
    /\ p_procs >= 2 /\ NTasks >= 2 /\ p_order[1] # 1

\* C6: the rectangle of _auto_crop satisfies 0 <= line_min < line_max <= line_count
C6_RectInBounds ==
    (pc = "crop_done") =>
        /\ 0 <= rect[1][1]
        /\ rect[1][1] < rect[2][1]
        /\ rect[2][1] <= sz0

ArtifactPaths == {path_cropped, path_initialised_contours, path_filtered_contours,
                  path_refined_contours}

WrittenPaths == [i \in 1..Len(written) |-> written[i].path]

\* the paths a complete run writes to, in order
ExpectedPaths ==
    (IF _disable_crop_data THEN <<>> ELSE <<path_cropped>>)
    \o <<path_initialised_contours, path_filtered_contours, path_filtered_contours,
         path_refined_contours>>

MedianOf(z) == <<"_filter_median", <<"in", z>>>>
FilteredOf(z) == <<"_filter_inv_gauss", <<"_filter_denoise", <<"in", z>>>>>>
InitialisedOf(z) == <<"ac_mask", MedianOf(z)>>
RefinedOf(z) == <<"invert", <<"_segment_gac", FilteredOf(z), InitialisedOf(z)>>>>

\* the volume a write_nii call stored is the artifact its path names
HoldsArtifact(w) ==
    /\ w.path = path_cropped =>
            /\ w.shape = _image.shape /\ w.img = InputImg(_image.shape[3])
            /\ Printed("Cropping respiration area...")
    /\ w.path = path_initialised_contours =>
            /\ w.shape = _image.shape /\ w.img = [z \in 1.._image.shape[3] |-> InitialisedOf(z)]
            /\ Printed(DurationMsg("_filter_median"))
    /\ w.path = path_filtered_contours =>
            /\ w.shape = _image.shape /\ w.img = [z \in 1.._image.shape[3] |-> FilteredOf(z)]
            /\ Printed(DurationMsg("_filter_inv_gauss"))
    /\ w.path = path_refined_contours =>
            /\ w.shape = _image_refined.shape
            /\ w.img = [z \in 1.._image.shape[3] |-> RefinedOf(z)]
            /\ w.img = _image_refined.img
            /\ Printed(DurationMsg("_segment_gac"))

\* C7, as claimed: a complete run has written each of the four artifacts
C7_AllFourWritten ==
    (pc = "done") => \A p \in ArtifactPaths : \E i \in 1..Len(written) : written[i].path = p

\* C7, amended: a complete run has written the initialised contours, the filtered
\* volume (twice) and the refined contours, and before them the cropped volume
\* exactly when the crop is not disabled; each to the path WritePaths gives for
\* it, after the stage that makes it and with the volume holding its data.
C7_ArtifactsWritten ==
    /\ IsPrefix(WrittenPaths, ExpectedPaths)
    /\ (pc = "done") => WrittenPaths = ExpectedPaths
    /\ \A i \in 1..Len(written) : HoldsArtifact(written[i])

\* a complete run with the crop: five write_nii calls
C7_Witness == pc = "done" /\ ~_disable_crop_data /\ Len(written) = 5

\* C8, as claimed: after every stage the three volumes have the same shape
C8_AllSameShape ==
    (pc \in {"initialise_boundaries", "refine_boundaries", "sum_mask_data",
             "gpr_filter", "done"}) =>
        /\ _image_initialised.shape = _image.shape
        /\ _image_refined.shape = _image.shape

\* C8, amended: the initialised contours always have the shape of the source
\* volume, and so have the refined contours until the refinement ends; from
\* then on they have its slice count and shape[0], and fewer lines.
C8_ShapesFollowSource ==
    /\ _image_initialised.shape = _image.shape
    /\ IF Printed("Extracting respiration...")
       THEN /\ _image_refined.shape[1] = _image.shape[1]
            /\ _image_refined.shape[3] = _image.shape[3]
            /\ _image_refined.shape[2] < _image.shape[2]
       ELSE _image_refined.shape = _image.shape

\* a complete run whose crop changed the shape of the source volume
C8_Witness ==
    /\ pc = "done" /\ ~_disable_crop_data
    /\ written[1].path = path_cropped
    /\ _image.shape[2] < MaxLines - 1

\* C9: the mask holds 0 and 1 only, and the voxels of the first and of the last
\* row are in the thresholded volume and in the mask, whatever their intensity.
C9_BinaryMaskHoldsEdgeRows ==
    (pc = "vox_done") =>
        /\ \A u \in Voxels(vox.shape) : ac_mask[u] \in {0, 1}
        /\ \A u \in EdgeRows(vox.shape) : u \in img_thresh /\ ac_mask[u] = 1

\* a voxel of an edge row above the threshold is in the mask, and of the
\* voxels between the edge rows one is in the mask and one is not
C9_Witness ==
    /\ pc = "vox_done"
    /\ \E u \in EdgeRows(vox.shape) : u \notin Thresholded(vox) /\ ac_mask[u] = 1
    /\ \E u \in Voxels(vox.shape) \ EdgeRows(vox.shape) : ac_mask[u] = 0
    /\ \E u \in Voxels(vox.shape) \ EdgeRows(vox.shape) : ac_mask[u] = 1

\* C10: after a complete run the three signals are arrays of the length of the
\* refined contours' slice axis, and resp_trace[i] = resp_raw[i] - resp_trend[i].
C10_SignalsAligned ==
    (pc = "done") =>
        /\ resp_raw.kind = "array" /\ resp_trend.kind = "array" /\ resp_trace.kind = "array"
        /\ Len(resp_raw.val) = _image_refined.shape[3]
        /\ Len(resp_trend.val) = _image_refined.shape[3]
        /\ Len(resp_trace.val) = _image_refined.shape[3]
        /\ \A i \in 1.._image_refined.shape[3] :
                resp_trace.val[i] = resp_raw.val[i] - resp_trend.val[i]

\* a complete run whose trace has a negative and a zero entry
C10_Witness ==
    /\ pc = "done"
    /\ \E i \in 1..Len(resp_trace.val) : resp_trace.val[i] < 0
    /\ \E i \in 1..Len(resp_trace.val) : resp_trace.val[i] = 0

====
